---------------------------- MODULE Spec2Model ----------------------------
(***************************************************************************)
(* Model of translate.py: main() of the Easy-Translate script.             *)
(* One run of main() is a straight line of steps (directory creation,      *)
(* tokenizer and model loading, precision selection, model placement,      *)
(* opening of the output file, the batch loop); every step can raise, and  *)
(* an exception unwinds the `with` block when it is raised inside it.      *)
(* The file system (directories, the output file) survives a run, so a     *)
(* second run of main() with the same arguments starts from what the first *)
(* run left behind.                                                        *)
(***************************************************************************)
EXTENDS Integers, Sequences, FiniteSets

\* ---------------------------------------------------------------- bounds
MaxLines == 3
MaxBatch == 2
MaxRuns == 2

\* ---------------------------------------------------------------- inputs
NL == "\n"
\* the lines an input file can hold; "" is an empty line
SourceLines == {"", "a", "b"}
\* values of the precision argument; 8 is the unsupported one
PrecisionValues == {8, 16, 32, 64}
\* os.path.dirname(output_path) as path components; <<>> is the string ""
\* that dirname returns for a bare file name
DirnameValues == {<<>>, <<"out">>, <<"out", "run">>}

RECURSIVE SeqsUpTo(_, _)
SeqsUpTo(S, n) ==
    IF n = 0 THEN {<<>>}
    ELSE LET shorter == SeqsUpTo(S, n - 1)
         IN shorter \cup {Append(s, x) : s \in {t \in shorter : Len(t) = n - 1}, x \in S}

\* content of a file left at output_path by something else: empty, one
\* line, or more lines than any run of the model writes
OldLong == [i \in 1..(2 * (MaxLines + 2)) |-> IF i % 2 = 1 THEN "Z" ELSE NL]
OldContents == {<<>>, <<"Z", NL>>, OldLong}

\* ------------------------------------------------------ pure functions
Prefixes(p) == {SubSeq(p, 1, k) : k \in 1..Len(p)}

\* os.path.exists(os.path.dirname(output_path)); exists("") is False
PathExists(d, p) == p # <<>> /\ p \in d

Makedirs_skip(d, p) == d
\* os.makedirs(p): creates p and every missing intermediate directory
Makedirs(d, p) == d \cup Prefixes(p)

ValidPrecision_any(p) == TRUE
\* the if/elif chain of the precision selection
ValidPrecision(p) == p \in {16, 32, 64}

Dtype(p) ==
    IF p = 16 THEN "float16" ELSE IF p = 32 THEN "float32" ELSE "float64"

UseTensorrt_ignored(trt) == FALSE
\* `if tensorrt:` chooses the compiled plan, `else:` standard placement
UseTensorrt(trt) == trt

\* dataset.count_lines
CountLines(file) == Len(file)

NonEmptyLines(file) == SelectSeq(file, LAMBDA s : s # "")

RECURSIVE Chunk(_, _)
Chunk(s, n) ==
    IF s = <<>> THEN <<>>
    ELSE IF Len(s) <= n THEN <<s>>
    ELSE <<SubSeq(s, 1, n)>> \o Chunk(SubSeq(s, n + 1, Len(s)), n)

\* dataset.get_dataloader: fixed-size batches of the non-empty lines
GetDataloader(file, n) == Chunk(NonEmptyLines(file), n)

\* model.generate: one token sequence per sentence of the batch
TokenOf(s) == IF s = "a" THEN <<1>> ELSE <<2>>
Generate(b) == [i \in 1..Len(b) |-> TokenOf(b[i])]

\* tokenizer.batch_decode: one string per token sequence
TextOf(t) == IF t = <<1>> THEN "A" ELSE "B"
BatchDecode(g) == [i \in 1..Len(g) |-> TextOf(g[i])]

Translate(s) == TextOf(TokenOf(s))

RECURSIVE JoinLines_reversed(_)
JoinLines_reversed(t) ==
    IF t = <<>> THEN <<>>
    ELSE IF Len(t) = 1 THEN <<t[1]>>
    ELSE JoinLines_reversed(Tail(t)) \o <<NL, t[1]>>

RECURSIVE JoinLines(_)
\* "\n".join(tgt_text)
JoinLines(t) ==
    IF t = <<>> THEN <<>>
    ELSE IF Len(t) = 1 THEN <<t[1]>>
    ELSE <<t[1], NL>> \o JoinLines(Tail(t))

TruncateOnOpen_append(c) == c
\* open(output_path, "w+"): the file is created or truncated
TruncateOnOpen(c) == <<>>

WithExit_leak(h) == h
\* leaving the `with` block, normally or by an exception, closes the handle
WithExit(h) == FALSE

PbarUpdate_one(n, t) == n + 1
\* pbar.update(len(tgt_text))
PbarUpdate(n, t) == n + Len(t)

\* the lines of a file: the text between newlines; text after the last
\* newline is a line of its own
RECURSIVE SplitLines(_, _)
SplitLines(c, cur) ==
    IF c = <<>> THEN (IF cur = <<>> THEN <<>> ELSE <<cur>>)
    ELSE IF Head(c) = NL THEN <<cur>> \o SplitLines(Tail(c), <<>>)
    ELSE SplitLines(Tail(c), Append(cur, Head(c)))

FileLines(c) == SplitLines(c, <<>>)

\* ------------------------------------------------------------- state
VARIABLES
    sentences, batch_size, precision, tensorrt, dirname,   \* arguments
    dirs, fileExists, fileContent,                         \* file system
    pc, failure, run,
    tokenizerLoaded, modelLoaded,
    total_lines, data_loader, dtype,
    compileCount, placeCount, device,
    fileOpen, pbarN, batchIdx, batch,
    generated_tokens, tgt_text, generateCalls,
    donePrinted,
    madeDirs, dirsAtStart, fileAtStart, prevDone, prevOutput   \* history

args == <<sentences, batch_size, precision, tensorrt, dirname>>
fs == <<dirs, fileExists, fileContent>>
loaded == <<tokenizerLoaded, modelLoaded>>
inputs == <<total_lines, data_loader>>
placement == <<compileCount, placeCount, device>>
loopv == <<batchIdx, batch, generated_tokens, tgt_text, generateCalls>>
hist == <<madeDirs, dirsAtStart, fileAtStart, prevDone, prevOutput>>
vars == <<args, fs, pc, failure, run, loaded, inputs, dtype, placement,
          fileOpen, pbarN, loopv, donePrinted, hist>>

FileState == <<fileExists, fileContent>>

Init ==
    /\ sentences \in SeqsUpTo(SourceLines, MaxLines)
    /\ batch_size \in 1..MaxBatch
    /\ precision \in PrecisionValues
    /\ tensorrt \in BOOLEAN
    /\ dirname \in DirnameValues
    /\ dirs \in {{}, {<<"out">>}, {<<"out">>, <<"out", "run">>}}
    /\ \/ fileExists = FALSE /\ fileContent = <<>>
       \/ /\ dirname = <<>> \/ dirname \in dirs
          /\ fileExists = TRUE
          /\ fileContent \in OldContents
    /\ pc = "start" /\ failure = "none" /\ run = 1
    /\ tokenizerLoaded = FALSE /\ modelLoaded = FALSE
    /\ total_lines = 0 /\ data_loader = <<>> /\ dtype = "none"
    /\ compileCount = 0 /\ placeCount = 0 /\ device = "none"
    /\ fileOpen = FALSE /\ pbarN = 0 /\ batchIdx = 0 /\ batch = <<>>
    /\ generated_tokens = <<>> /\ tgt_text = <<>> /\ generateCalls = 0
    /\ donePrinted = FALSE
    /\ madeDirs = FALSE /\ dirsAtStart = dirs
    /\ fileAtStart = <<fileExists, fileContent>>
    /\ prevDone = FALSE /\ prevOutput = <<>>

\* an exception raised before the `with` block: main() ends, nothing to close
RaiseOutside(kind) ==
    /\ pc' = "failed" /\ failure' = kind
    /\ UNCHANGED <<args, run, hist>>

\* an exception raised inside the `with` block: the block is left
RaiseInside(kind) ==
    /\ pc' = "failed" /\ failure' = kind
    /\ fileOpen' = WithExit(fileOpen)
    /\ UNCHANGED <<args, run, hist, dirs, fileExists, loaded, inputs, dtype,
                   placement, pbarN, donePrinted>>

\* ------------------------------------------------------------- steps
EnsureOutputDir ==
    /\ pc = "start"
    /\ IF PathExists(dirs, dirname)
       THEN UNCHANGED <<dirs, madeDirs>>
       ELSE /\ dirname # <<>>
            /\ dirs' = Makedirs(dirs, dirname)
            /\ madeDirs' = TRUE
    /\ pc' = "load_tokenizer"
    /\ UNCHANGED <<args, fileExists, fileContent, failure, run, loaded, inputs,
                   dtype, placement, fileOpen, pbarN, loopv, donePrinted,
                   dirsAtStart, fileAtStart, prevDone, prevOutput>>

\* os.makedirs raises: always for the empty dirname, possibly otherwise
MakedirsFails ==
    /\ pc = "start"
    /\ ~PathExists(dirs, dirname)
    /\ RaiseOutside("makedirs")
    /\ UNCHANGED <<fs, loaded, inputs, dtype, placement, fileOpen, pbarN,
                   loopv, donePrinted>>

LoadTokenizer ==
    /\ pc = "load_tokenizer"
    /\ tokenizerLoaded' = TRUE
    /\ pc' = "load_model"
    /\ UNCHANGED <<args, fs, failure, run, modelLoaded, inputs, dtype,
                   placement, fileOpen, pbarN, loopv, donePrinted, hist>>

LoadTokenizerFails ==
    /\ pc = "load_tokenizer"
    /\ RaiseOutside("load_tokenizer")
    /\ UNCHANGED <<fs, loaded, inputs, dtype, placement, fileOpen, pbarN,
                   loopv, donePrinted>>

LoadModel ==
    /\ pc = "load_model"
    /\ modelLoaded' = TRUE
    /\ pc' = "languages"
    /\ UNCHANGED <<args, fs, failure, run, tokenizerLoaded, inputs, dtype,
                   placement, fileOpen, pbarN, loopv, donePrinted, hist>>

LoadModelFails ==
    /\ pc = "load_model"
    /\ RaiseOutside("load_model")
    /\ UNCHANGED <<fs, loaded, inputs, dtype, placement, fileOpen, pbarN,
                   loopv, donePrinted>>

SetLanguages ==
    /\ pc = "languages"
    /\ pc' = "dataset"
    /\ UNCHANGED <<args, fs, failure, run, loaded, inputs, dtype, placement,
                   fileOpen, pbarN, loopv, donePrinted, hist>>

\* tokenizer.lang_code_to_id[target_lang] raises KeyError
UnknownTargetLang ==
    /\ pc = "languages"
    /\ RaiseOutside("target_lang")
    /\ UNCHANGED <<fs, loaded, inputs, dtype, placement, fileOpen, pbarN,
                   loopv, donePrinted>>

PrepareDataset ==
    /\ pc = "dataset"
    /\ total_lines' = CountLines(sentences)
    /\ data_loader' = GetDataloader(sentences, batch_size)
    /\ pc' = "precision"
    /\ UNCHANGED <<args, fs, failure, run, loaded, dtype, placement,
                   fileOpen, pbarN, loopv, donePrinted, hist>>

\* the input file cannot be read
PrepareDatasetFails ==
    /\ pc = "dataset"
    /\ RaiseOutside("dataset")
    /\ UNCHANGED <<fs, loaded, inputs, dtype, placement, fileOpen, pbarN,
                   loopv, donePrinted>>

SelectDtype ==
    /\ pc = "precision"
    /\ ValidPrecision(precision)
    /\ dtype' = Dtype(precision)
    /\ pc' = "place"
    /\ UNCHANGED <<args, fs, failure, run, loaded, inputs, placement,
                   fileOpen, pbarN, loopv, donePrinted, hist>>

\* raise ValueError("Precision must be 16, 32 or 64.")
InvalidPrecision ==
    /\ pc = "precision"
    /\ ~ValidPrecision(precision)
    /\ RaiseOutside("precision")
    /\ UNCHANGED <<fs, loaded, inputs, dtype, placement, fileOpen, pbarN,
                   loopv, donePrinted>>

TensorrtCompile ==
    /\ pc = "place"
    /\ UseTensorrt(tensorrt)
    /\ compileCount' = compileCount + 1
    /\ pc' = "open"
    /\ UNCHANGED <<args, fs, failure, run, loaded, inputs, dtype, placeCount,
                   device, fileOpen, pbarN, loopv, donePrinted, hist>>

\* import torch_tensorrt, torch.jit.trace or torch_tensorrt.compile raises
TensorrtCompileFails ==
    /\ pc = "place"
    /\ UseTensorrt(tensorrt)
    /\ RaiseOutside("tensorrt")
    /\ UNCHANGED <<fs, loaded, inputs, dtype, placement, fileOpen, pbarN,
                   loopv, donePrinted>>

StandardPlacement ==
    /\ pc = "place"
    /\ ~UseTensorrt(tensorrt)
    /\ \E cuda_available \in BOOLEAN :
          device' = IF cuda_available THEN "cuda" ELSE "cpu"
    /\ placeCount' = placeCount + 1
    /\ pc' = "open"
    /\ UNCHANGED <<args, fs, failure, run, loaded, inputs, dtype,
                   compileCount, fileOpen, pbarN, loopv, donePrinted, hist>>

StandardPlacementFails ==
    /\ pc = "place"
    /\ ~UseTensorrt(tensorrt)
    /\ RaiseOutside("placement")
    /\ UNCHANGED <<fs, loaded, inputs, dtype, placement, fileOpen, pbarN,
                   loopv, donePrinted>>

\* with tqdm(...) as pbar, open(output_path, "w+") as output_file
OpenOutput ==
    /\ pc = "open"
    /\ dirname \in dirs
    /\ fileExists' = TRUE
    /\ fileContent' = TruncateOnOpen(fileContent)
    /\ fileOpen' = TRUE
    /\ pbarN' = 0
    /\ pc' = "loop"
    /\ UNCHANGED <<args, dirs, failure, run, loaded, inputs, dtype, placement,
                   loopv, donePrinted, hist>>

\* the output path is not writable
OpenOutputFails ==
    /\ pc = "open"
    /\ RaiseOutside("open")
    /\ UNCHANGED <<fs, loaded, inputs, dtype, placement, fileOpen, pbarN,
                   loopv, donePrinted>>

\* for batch in data_loader: the next batch
NextBatch ==
    /\ pc = "loop"
    /\ batchIdx < Len(data_loader)
    /\ batchIdx' = batchIdx + 1
    /\ batch' = data_loader[batchIdx + 1]
    /\ pc' = "generate"
    /\ UNCHANGED <<args, fs, failure, run, loaded, inputs, dtype, placement,
                   fileOpen, pbarN, generated_tokens, tgt_text, generateCalls,
                   donePrinted, hist>>

\* the data loader raises while it produces the next batch
NextBatchFails ==
    /\ pc = "loop"
    /\ batchIdx < Len(data_loader)
    /\ batchIdx' = batchIdx + 1
    /\ RaiseInside("loader")
    /\ UNCHANGED <<fileContent, batch, generated_tokens, tgt_text, generateCalls>>

\* the loader is exhausted: the loop and the `with` block end
ExitWith ==
    /\ pc = "loop"
    /\ batchIdx = Len(data_loader)
    /\ fileOpen' = WithExit(fileOpen)
    /\ pc' = "print_done"
    /\ UNCHANGED <<args, fs, failure, run, loaded, inputs, dtype, placement,
                   pbarN, loopv, donePrinted, hist>>

\* print("Translation done.")
PrintDone ==
    /\ pc = "print_done"
    /\ donePrinted' = TRUE
    /\ pc' = "done"
    /\ UNCHANGED <<args, fs, failure, run, loaded, inputs, dtype, placement,
                   fileOpen, pbarN, loopv, hist>>

GenerateBatch ==
    /\ pc = "generate"
    /\ generateCalls' = generateCalls + 1
    /\ generated_tokens' = Generate(batch)
    /\ pc' = "decode"
    /\ UNCHANGED <<args, fs, failure, run, loaded, inputs, dtype, placement,
                   fileOpen, pbarN, batchIdx, batch, tgt_text, donePrinted, hist>>

GenerateFails ==
    /\ pc = "generate"
    /\ generateCalls' = generateCalls + 1
    /\ RaiseInside("generate")
    /\ UNCHANGED <<fileContent, batchIdx, batch, generated_tokens, tgt_text>>

DecodeBatch ==
    /\ pc = "decode"
    /\ tgt_text' = BatchDecode(generated_tokens)
    /\ pc' = "write_text"
    /\ UNCHANGED <<args, fs, failure, run, loaded, inputs, dtype, placement,
                   fileOpen, pbarN, batchIdx, batch, generated_tokens,
                   generateCalls, donePrinted, hist>>

DecodeFails ==
    /\ pc = "decode"
    /\ RaiseInside("decode")
    /\ UNCHANGED <<fileContent, loopv>>

\* print(...) first writes its argument, the joined lines ...
WriteText ==
    /\ pc = "write_text"
    /\ fileContent' = fileContent \o JoinLines(tgt_text)
    /\ pc' = "write_end"
    /\ UNCHANGED <<args, dirs, fileExists, failure, run, loaded, inputs, dtype,
                   placement, fileOpen, pbarN, loopv, donePrinted, hist>>

\* ... and a write that raises leaves what reached the file before the error
WriteTextFails ==
    /\ pc = "write_text"
    /\ \E k \in 0..Len(JoinLines(tgt_text)) :
          fileContent' = fileContent \o SubSeq(JoinLines(tgt_text), 1, k)
    /\ RaiseInside("write")
    /\ UNCHANGED loopv

\* ... then print writes its end, the newline
WriteEnd ==
    /\ pc = "write_end"
    /\ fileContent' = fileContent \o <<NL>>
    /\ pc' = "update"
    /\ UNCHANGED <<args, dirs, fileExists, failure, run, loaded, inputs, dtype,
                   placement, fileOpen, pbarN, loopv, donePrinted, hist>>

WriteEndFails ==
    /\ pc = "write_end"
    /\ RaiseInside("write")
    /\ UNCHANGED <<fileContent, loopv>>

UpdateProgress ==
    /\ pc = "update"
    /\ pbarN' = PbarUpdate(pbarN, tgt_text)
    /\ pc' = "loop"
    /\ UNCHANGED <<args, fs, failure, run, loaded, inputs, dtype, placement,
                   fileOpen, loopv, donePrinted, hist>>

\* main() is called again with the same arguments; the file system stays
RunAgain ==
    /\ pc \in {"done", "failed"}
    /\ run < MaxRuns
    /\ run' = run + 1
    /\ prevDone' = (pc = "done")
    /\ prevOutput' = fileContent
    /\ fileAtStart' = <<fileExists, fileContent>>
    /\ dirsAtStart' = dirs
    /\ madeDirs' = FALSE
    /\ pc' = "start" /\ failure' = "none"
    /\ tokenizerLoaded' = FALSE /\ modelLoaded' = FALSE
    /\ total_lines' = 0 /\ data_loader' = <<>> /\ dtype' = "none"
    /\ compileCount' = 0 /\ placeCount' = 0 /\ device' = "none"
    /\ fileOpen' = FALSE /\ pbarN' = 0 /\ batchIdx' = 0 /\ batch' = <<>>
    /\ generated_tokens' = <<>> /\ tgt_text' = <<>> /\ generateCalls' = 0
    /\ donePrinted' = FALSE
    /\ UNCHANGED <<args, fs>>

Next ==
    \/ EnsureOutputDir \/ MakedirsFails
    \/ LoadTokenizer \/ LoadTokenizerFails
    \/ LoadModel \/ LoadModelFails
    \/ SetLanguages \/ UnknownTargetLang
    \/ PrepareDataset \/ PrepareDatasetFails
    \/ SelectDtype \/ InvalidPrecision
    \/ TensorrtCompile \/ TensorrtCompileFails
    \/ StandardPlacement \/ StandardPlacementFails
    \/ OpenOutput \/ OpenOutputFails
    \/ NextBatch \/ NextBatchFails
    \/ ExitWith \/ PrintDone
    \/ GenerateBatch \/ GenerateFails
    \/ DecodeBatch \/ DecodeFails
    \/ WriteText \/ WriteTextFails
    \/ WriteEnd \/ WriteEndFails
    \/ UpdateProgress
    \/ RunAgain

Spec == Init /\ [][Next]_vars

\* ------------------------------------------------- what the claims use
InWith == pc \in {"loop", "generate", "decode", "write_text", "write_end", "update"}
InBatch == pc \in {"generate", "decode", "write_text", "write_end", "update"}
BatchFailure == pc = "failed" /\ failure \in {"generate", "decode", "write"}

\* the translations of the non-empty input lines, one line each
ExpectedLines ==
    LET ne == NonEmptyLines(sentences)
    IN [i \in 1..Len(ne) |-> <<Translate(ne[i])>>]

RECURSIVE SumLen(_, _)
SumLen(bs, k) == IF k <= 0 THEN 0 ELSE Len(bs[k]) + SumLen(bs, k - 1)

RECURSIVE Flatten(_)
Flatten(ls) == IF ls = <<>> THEN <<>> ELSE Head(ls) \o <<NL>> \o Flatten(Tail(ls))

\* the file holds exactly the lines ls, each ended by a newline
HoldsExactly(c, ls) == FileLines(c) = ls /\ (c = <<>> \/ c[Len(c)] = NL)

LinesOfBatches(from, to) ==
    SubSeq(ExpectedLines, SumLen(data_loader, from - 1) + 1, SumLen(data_loader, to))

\* C1: when main() completes, the output file holds exactly one line per
\* non-empty input line, the i-th being the translation of the i-th input
\* line, whatever the batch size
C1_OutputInInputOrder ==
    pc = "done" => HoldsExactly(fileContent, ExpectedLines)

C1_Witness ==
    /\ pc = "done"
    /\ Len(data_loader) >= 2
    /\ Len(data_loader[1]) >= 2
    /\ data_loader[1][1] # data_loader[1][2]
    /\ HoldsExactly(fileContent, ExpectedLines)

\* C2: a run that fails on the precision value has loaded neither the
\* tokenizer nor the model
C2_PrecisionFailsBeforeLoading ==
    (pc = "failed" /\ failure = "precision") => (~tokenizerLoaded /\ ~modelLoaded)

\* C3: no terminal state of main() has the output handle open
C3_HandleClosedOnExit ==
    pc \in {"print_done", "done", "failed"} => ~fileOpen

C3_Witness ==
    /\ pc = "failed" /\ failure \in {"generate", "decode", "write", "loader"}
    /\ batchIdx >= 2
    /\ fileExists
    /\ ~fileOpen

\* C4: once the first step of main() is over the parent directory of
\* output_path exists, so it exists when the file is opened and when the
\* run completes
C4_ParentDirectoryExists ==
    (pc \notin {"start", "failed"} \/ (pc = "failed" /\ failure # "makedirs"))
        => (dirname \in dirs /\ Prefixes(dirname) \subseteq dirs)

C4_Witness ==
    /\ pc = "done"
    /\ dirsAtStart = {}
    /\ madeDirs
    /\ Len(dirname) >= 2
    /\ dirname \in dirs

\* C5: with an input file of 0 lines the loop body never runs, and a run
\* that completes leaves an output file that exists and is empty
C5_EmptyInputEmptyOutput ==
    sentences = <<>> =>
        /\ ~InBatch /\ generateCalls = 0
        /\ ~BatchFailure
        /\ pc \in {"print_done", "done"} => (fileExists /\ fileContent = <<>>)

C5_Witness ==
    /\ pc = "done" /\ sentences = <<>>
    /\ fileAtStart[1] /\ fileAtStart[2] # <<>>
    /\ fileContent = <<>>

\* C6: a run that completes after a completed run with the same arguments
\* leaves the content the first run left
C6_SecondRunSameOutput ==
    (pc = "done" /\ prevDone) => fileContent = prevOutput

C6_Witness ==
    /\ pc = "done" /\ prevDone /\ run >= 2
    /\ Len(FileLines(fileContent)) >= 2
    /\ fileContent = prevOutput

C8_OneConfiguration ==
    /\ compileCount + placeCount <= 1
    /\ pc \in {"start", "load_tokenizer", "load_model", "languages", "dataset",
               "precision", "place"} => (compileCount + placeCount = 0 /\ generateCalls = 0)
    /\ (InWith \/ pc \in {"open", "print_done", "done"} \/ generateCalls > 0) =>
           /\ compileCount + placeCount = 1
           /\ precision \in {16, 32, 64}
           /\ tensorrt => (compileCount = 1 /\ placeCount = 0 /\ device = "none")
           /\ ~tensorrt => (placeCount = 1 /\ compileCount = 0 /\ device \in {"cuda", "cpu"})

C8_Witness ==
    /\ pc = "generate" /\ batchIdx = 2
    /\ tensorrt /\ compileCount = 1 /\ placeCount = 0

\* C9: between batches the progress counter is the number of lines in the
\* output file; while a batch is processed it still counts the earlier
\* batches only, also once the batch is in the file; on completion it is
\* the number of lines translated
C9_ProgressCountsWrittenLines ==
    /\ pc = "loop" => (pbarN = Len(FileLines(fileContent))
                          /\ pbarN = SumLen(data_loader, batchIdx))
    /\ InBatch => pbarN = SumLen(data_loader, batchIdx - 1)
    /\ pc = "update" => Len(FileLines(fileContent)) = pbarN + Len(batch)
    /\ pc \in {"print_done", "done"} => pbarN = Len(NonEmptyLines(sentences))

C9_Witness ==
    /\ pc = "loop" /\ batchIdx = 2
    /\ Len(data_loader[1]) = 2
    /\ pbarN >= 3

\* C10: in a run with an unsupported precision, and in a run that failed at
\* any step up to the precision check, the output file was never opened and
\* is what it was when the run started; of the directories only the parents
\* of output_path may have been added
C10_EarlyFailureKeepsFile ==
    (precision \notin {16, 32, 64}
       \/ (pc = "failed" /\ failure \in {"makedirs", "load_tokenizer", "load_model",
                                         "target_lang", "dataset", "precision"}))
    => /\ ~fileOpen
       /\ FileState = fileAtStart
       /\ dirs \in {dirsAtStart, dirsAtStart \cup Prefixes(dirname)}

C10_Witness ==
    /\ pc = "failed" /\ failure = "precision"
    /\ fileAtStart[1] /\ fileAtStart[2] # <<>>
    /\ FileState = fileAtStart
    /\ run = 1

TypeOK ==
    /\ pc \in {"start", "load_tokenizer", "load_model", "languages", "dataset",
               "precision", "place", "open", "loop", "generate", "decode",
               "write_text", "write_end", "update", "print_done", "done", "failed"}
    /\ run \in 1..MaxRuns
    /\ fileOpen \in BOOLEAN
    /\ pbarN \in Nat
=============================================================================
